---- MODULE Spec2Model ----
(***************************************************************************)
(* A model of two units of the dowhy sources:                              *)
(*                                                                         *)
(*   - PropensityScoreMatchingEstimator (fit / estimate_effect), in        *)
(*     dowhy/causal_estimators/propensity_score_matching_estimator.py      *)
(*   - the anomaly scorers of dowhy/gcm/anomaly_scorers.py                 *)
(*                                                                         *)
(* Numbers.  Python floats are modelled by exact rationals [n, d] (d > 0,  *)
(* lowest terms), so "equal" means equal as real numbers; floating-point   *)
(* rounding is outside the model.  The scorers' floats also carry nan,     *)
(* inf, square roots and logarithms; see "Values of the anomaly scorers".  *)
(***************************************************************************)
EXTENDS Integers, Sequences, FiniteSets, TLC

VARIABLES
    symbolic_estimator,  \* estimator.symbolic_estimator: "unset" until fit
    self_fields,         \* estimator._target_units/_treatment_value/_control_value
    last_call,           \* the last completed estimate_effect call (sequential use)
    threads,             \* concurrent use: each caller's position, arguments, result
    kind,                \* the class of the scorer object under test
    scorer,              \* the fields of that scorer object
    it,                  \* the fields of the ITAnomalyScorer built around it
    ref,                 \* the caller's array, as last passed to a fit
    returned,            \* what the most recent scorer call handed back
    wrappers             \* the fields of each ITAnomalyScorer sharing the scorer

est_vars == <<symbolic_estimator, self_fields, last_call, threads>>
sc_vars == <<kind, scorer, it, ref, returned, wrappers>>

vars == <<est_vars, sc_vars>>

-----------------------------------------------------------------------------
(* Bounds of the model *)

\* most rows in one observation table
MaxRows == 3
\* propensity scores are drawn from 0..MaxPS (a scaled grid of the (0,1) range)
MaxPS == 1
\* outcomes are drawn from 0..MaxY
MaxY == 1
\* callers of estimate_effect running at the same time on one instance
NCallers == 2
\* reference samples are drawn from 0..MaxVal, queries from -1..MaxVal+1
MaxVal == 3
\* most samples in one reference array
MaxLen == 3

-----------------------------------------------------------------------------
(* Exact rational arithmetic standing for Python's float arithmetic *)

Abs(x) == IF x < 0 THEN -x ELSE x

RECURSIVE GCD(_, _)
GCD(a, b) == IF b = 0 THEN a ELSE GCD(b, a % b)

\* n/d in lowest terms with a positive denominator (d # 0)
Rat(n, d) ==
    LET g == GCD(Abs(n), Abs(d))
        s == IF d < 0 THEN -1 ELSE 1
    IN  [n |-> (s * n) \div g, d |-> (s * d) \div g]

RatInt(k) == [n |-> k, d |-> 1]
RatAdd(a, b) == Rat(a.n * b.d + b.n * a.d, a.d * b.d)
RatSub(a, b) == Rat(a.n * b.d - b.n * a.d, a.d * b.d)
RatMul(a, b) == Rat(a.n * b.n, a.d * b.d)
\* a / b for b # 0
RatDiv(a, b) == Rat(a.n * b.d, a.d * b.n)
RatLt(a, b) == a.n * b.d < b.n * a.d
RatLe(a, b) == a.n * b.d <= b.n * a.d
RatAbs(a) == [n |-> Abs(a.n), d |-> a.d]

-----------------------------------------------------------------------------
(* Observation tables *)

\* a row: binary treatment t, propensity score ps, outcome y
Rows == [t : {0, 1}, ps : 0..MaxPS, y : 0..MaxY]

RECURSIVE SeqsUpTo(_, _)
SeqsUpTo(S, k) ==
    IF k = 0 THEN {<<>>}
    ELSE LET shorter == SeqsUpTo(S, k - 1)
         IN  shorter \cup {Append(s, x) : s \in {q \in shorter : Len(q) = k - 1}, x \in S}

Tables == SeqsUpTo(Rows, MaxRows)

\* the values target_units takes: the three supported strings, the default
\* None of an omitted argument, and an unsupported string
TargetUnits == {"att", "atc", "ate", "None", "ATE"}

-----------------------------------------------------------------------------
(* estimate_effect, lines 117-161 *)

IsTreated(row) == row.t = 1
IsControl(row) == row.t = 0

\* data.loc[data[treatment] == 1]
Treated(data) == SelectSeq(data, IsTreated)
\* data.loc[data[treatment] == 0]
Control(data) == SelectSeq(data, IsControl)

\* distance of the 1-D nearest-neighbour search
Distance(p, q) == Abs(p - q)

NearestFirst(points, q) == IF Len(points) > 0 THEN {1} ELSE {}

\* the indices kneighbors(n_neighbors=1) may return for query value q over the
\* fitted points: an exact nearest point; which one among ties is the
\* search structure's choice
Nearest(points, q) ==
    {j \in 1..Len(points) :
        \A k \in 1..Len(points) : Distance(points[j].ps, q) <= Distance(points[k].ps, q)}

\* NearestNeighbors(n_neighbors=1).fit(points).kneighbors(queries): every
\* index vector the search may return
KNeighbors(points, queries) ==
    {ind \in [1..Len(queries) -> 1..Len(points)] :
        \A i \in 1..Len(queries) : ind[i] \in Nearest(points, queries[i].ps)}

\* the loop of lines 133-136: sum over the treated rows of
\* treated_outcome - control_outcome
RECURSIVE SumATT(_, _, _, _)
SumATT(treated, control, indices, i) ==
    IF i = 0 THEN 0
    ELSE SumATT(treated, control, indices, i - 1)
         + (treated[i].y - control[indices[i]].y)

\* the loop of lines 147-150: sum over the control rows of
\* treated_outcome - control_outcome
RECURSIVE SumATC(_, _, _, _)
SumATC(treated, control, indices, i) ==
    IF i = 0 THEN 0
    ELSE SumATC(treated, control, indices, i - 1)
         + (treated[indices[i]].y - control[i].y)

\* lines 138 and 152: total /= count, for count # 0
Average(total, count) == Rat(total, count)

CombineUnweighted(att, atc, n, m) ==
    RatDiv(RatAdd(att, atc), RatInt(2))

\* line 159
CombineATE(att, atc, n, m) ==
    RatDiv(RatAdd(RatMul(att, RatInt(n)), RatMul(atc, RatInt(m))), RatInt(n + m))

SupportedDefaultATE(target_units) == target_units \in {"att", "atc", "ate", "None"}

\* lines 154-161: the values of target_units that do not reach the else branch
Supported(target_units) == target_units \in {"att", "atc", "ate"}

\* lines 154-159
Select(target_units, att, atc, n, m) ==
    IF target_units = "att" THEN att
    ELSE IF target_units = "atc" THEN atc
    ELSE CombineATE(att, atc, n, m)

Zero == RatInt(0)
NoIndices == <<>>
\* the float 0/0 (never produced by the code below: Python raises instead)
NaNRat == [n |-> 0, d |-> 0]

\* a call that ended in an exception before any matching was done
Raised(error, line, n, m) ==
    [kind |-> "raise", error |-> error, line |-> line, n |-> n, m |-> m,
     ind_att |-> NoIndices, ind_atc |-> NoIndices,
     att |-> Zero, atc |-> Zero, est |-> Zero]

\* lines 163-176: the CausalEstimate handed back, with the call's locals
Estimated(est, n, m, ind_att, ind_atc, att, atc) ==
    [kind |-> "estimate", error |-> "", line |-> 176, n |-> n, m |-> m,
     ind_att |-> ind_att, ind_atc |-> ind_atc,
     att |-> att, atc |-> atc, est |-> est]

\* lines 124-161 on two non-empty partitions.  ind_att, ind_atc: the index
\* vectors the two searches returned.
Matched(data, target_units, ind_att, ind_atc) ==
    LET treated == Treated(data)
        control == Control(data)
        n == Len(treated)
        m == Len(control)
        att == Average(SumATT(treated, control, ind_att, n), n)
        atc == Average(SumATC(treated, control, ind_atc, m), m)
    IN  IF Supported(target_units)
        THEN Estimated(Select(target_units, att, atc, n, m),
                       n, m, ind_att, ind_atc, att, atc)
        ELSE [Estimated(Zero, n, m, ind_att, ind_atc, att, atc) EXCEPT
                !.kind = "raise",
                !.error = "ValueError: Target units string value not supported",
                !.line = 161]

OutcomePropagatesNaN(data, target_units, validates, ind_att, ind_atc) ==
    LET n == Len(Treated(data))
        m == Len(Control(data))
    IN  IF n = 0 \/ m = 0
        THEN Estimated(NaNRat, n, m, NoIndices, NoIndices, NaNRat, NaNRat)
        ELSE Matched(data, target_units, ind_att, ind_atc)

\* What a call that reaches line 117 does.  validates: whether the
\* nearest-neighbour library rejects an empty array (scikit-learn does, with
\* a ValueError; the library is not part of the sources, so both answers are
\* modelled).
Outcome(data, target_units, validates, ind_att, ind_atc) ==
    LET n == Len(Treated(data))
        m == Len(Control(data))
    IN  \* NearestNeighbors(...).fit on an empty control partition
        IF m = 0 /\ validates THEN Raised("ValueError", 124, n, m)
        \* kneighbors on an empty treated partition
        ELSE IF n = 0 /\ validates THEN Raised("ValueError", 127, n, m)
        \* control.iloc[indices[i]] on an empty control partition
        ELSE IF n > 0 /\ m = 0 THEN Raised("IndexError", 135, n, m)
        \* att = 0 and numtreatedunits = 0 are Python ints: att /= 0 raises
        ELSE IF n = 0 THEN Raised("ZeroDivisionError", 138, n, m)
        ELSE Matched(data, target_units, ind_att, ind_atc)

\* the index vectors the two searches of one call may return
SearchesATT(data) ==
    IF Len(Treated(data)) > 0 /\ Len(Control(data)) > 0
    THEN KNeighbors(Control(data), Treated(data)) ELSE {NoIndices}

SearchesATC(data) ==
    IF Len(Treated(data)) > 0 /\ Len(Control(data)) > 0
    THEN KNeighbors(Treated(data), Control(data)) ELSE {NoIndices}

\* the answers of the library's input validation that make a difference:
\* it is asked to reject only when a partition is empty
Validations(data) ==
    IF Len(Treated(data)) = 0 \/ Len(Control(data)) = 0 THEN BOOLEAN ELSE {TRUE}

-----------------------------------------------------------------------------
(* The estimator, used by one caller *)

Callers == 1..NCallers

\* a caller that has not called yet
IdleThread ==
    [pc |-> "idle", data |-> <<>>, target_units |-> "None",
     treatment_value |-> 0, control_value |-> 0, result |-> Raised("", 0, 0, 0)]

NoCall ==
    [data |-> <<>>, target_units |-> "None", done |-> FALSE,
     result |-> Raised("", 0, 0, 0)]

\* the fields of the estimator after __init__
FreshFields == [target_units |-> "None", treatment_value |-> 0, control_value |-> 0]

\* fit, lines 83-101
Fit ==
    /\ ~last_call.done
    /\ symbolic_estimator' = "b: y~t+w"
    /\ UNCHANGED <<self_fields, last_call, threads, sc_vars>>

\* estimate_effect, lines 103-176, run from call to return by one caller with
\* the default treatment_value=1 and control_value=0.  A behaviour of this
\* specification holds one such call, on any table and any target_units.
EstimateEffect ==
    /\ symbolic_estimator # "unset"
    /\ ~last_call.done
    /\ \E data \in Tables, target_units \in TargetUnits :
         \E validates \in Validations(data),
            ind_att \in SearchesATT(data), ind_atc \in SearchesATC(data) :
            /\ self_fields' = [target_units |-> target_units,
                               treatment_value |-> 1, control_value |-> 0]
            /\ last_call' = [data |-> data, target_units |-> target_units, done |-> TRUE,
                             result |-> Outcome(data, target_units, validates,
                                                ind_att, ind_atc)]
    /\ UNCHANGED <<symbolic_estimator, threads, sc_vars>>


-----------------------------------------------------------------------------
(* The estimator, used by several callers at once.  estimate_effect holds   *)
(* no lock, so another caller may run between any two of its statements:    *)
(* each caller makes one call, taken statement by statement through the     *)
(* writes to the instance (lines 111-113) and then through the rest, which  *)
(* touches only the call's locals.  fit runs only while no call is under    *)
(* way.                                                                     *)

\* a table whose ATT, ATC and ATE differ
TableA == <<[t |-> 1, ps |-> 0, y |-> 1], [t |-> 1, ps |-> 1, y |-> 0],
            [t |-> 0, ps |-> 0, y |-> 0]>>
\* a table with a tie between two control rows
TableB == <<[t |-> 1, ps |-> 0, y |-> 1], [t |-> 0, ps |-> 0, y |-> 0],
            [t |-> 0, ps |-> 0, y |-> 1]>>
ConcTables == {TableA, TableB}
ConcTargetUnits == {"att", "atc", "None"}
ConcTreatmentValues == {1, 2}
ConcControlValues == {0}

TargetUnitsFromSelf(t) == self_fields.target_units

\* lines 154-161 read the argument target_units, not self._target_units
TargetUnitsUsed(t) == threads[t].target_units

ConcFit ==
    /\ \A t \in Callers : threads[t].pc \in {"idle", "done"}
    /\ symbolic_estimator' = "b: y~t+w"
    /\ UNCHANGED <<self_fields, last_call, threads, sc_vars>>

\* the call and line 111: self._target_units = target_units
EE_L111(t) ==
    /\ symbolic_estimator # "unset"
    /\ threads[t].pc = "idle"
    /\ \E data \in ConcTables, target_units \in ConcTargetUnits,
          treatment_value \in ConcTreatmentValues, control_value \in ConcControlValues :
          /\ threads' = [threads EXCEPT ![t] =
                 [pc |-> "L112", data |-> data, target_units |-> target_units,
                  treatment_value |-> treatment_value, control_value |-> control_value,
                  result |-> IdleThread.result]]
          /\ self_fields' = [self_fields EXCEPT !.target_units = target_units]
    /\ UNCHANGED <<symbolic_estimator, last_call, sc_vars>>

\* line 112: self._treatment_value = treatment_value
EE_L112(t) ==
    /\ threads[t].pc = "L112"
    /\ self_fields' = [self_fields EXCEPT !.treatment_value = threads[t].treatment_value]
    /\ threads' = [threads EXCEPT ![t].pc = "L113"]
    /\ UNCHANGED <<symbolic_estimator, last_call, sc_vars>>

\* line 113: self._control_value = control_value
EE_L113(t) ==
    /\ threads[t].pc = "L113"
    /\ self_fields' = [self_fields EXCEPT !.control_value = threads[t].control_value]
    /\ threads' = [threads EXCEPT ![t].pc = "L114"]
    /\ UNCHANGED <<symbolic_estimator, last_call, sc_vars>>

\* lines 114-176: the matching, the estimate and its back-reference to the
\* instance (estimate.add_estimator(self))
EE_L114(t) ==
    /\ threads[t].pc = "L114"
    /\ \E validates \in Validations(threads[t].data),
          ind_att \in SearchesATT(threads[t].data),
          ind_atc \in SearchesATC(threads[t].data) :
          threads' = [threads EXCEPT
                        ![t].pc = "done",
                        ![t].result = Outcome(threads[t].data, TargetUnitsUsed(t),
                                              validates, ind_att, ind_atc)]
    /\ UNCHANGED <<symbolic_estimator, self_fields, last_call, sc_vars>>

ConcNext ==
    \/ ConcFit
    \/ \E t \in Callers : EE_L111(t) \/ EE_L112(t) \/ EE_L113(t) \/ EE_L114(t)

-----------------------------------------------------------------------------
(* Values of the anomaly scorers.  A float is a record [k, v, s] with v and *)
(* s exact rationals:                                                       *)
(*    k = "num"      the number v                                           *)
(*    k = "per_std"  v / sqrt(s), s > 0   (np.std is a square root)         *)
(*    k = "times_c"  v * c, c the normalisation constant of statsmodels'    *)
(*                   mad, Phi^-1(3/4) = 0.6745...                           *)
(*    k = "neglog"   -log(v), v > 0                                         *)
(*    k = "nan", "inf"   the floats nan and +inf                            *)
(* so that sqrt, c and log are carried exactly and compared exactly.        *)

One == RatInt(1)
Num(v) == [k |-> "num", v |-> v, s |-> One]
PerStd(v, var) == [k |-> "per_std", v |-> v, s |-> var]
TimesC(v) == [k |-> "times_c", v |-> v, s |-> One]
NegLog(v) == [k |-> "neglog", v |-> v, s |-> One]
NaN == [k |-> "nan", v |-> Zero, s |-> One]
Inf == [k |-> "inf", v |-> Zero, s |-> One]

Sign(q) == IF q.n > 0 THEN 1 ELSE IF q.n < 0 THEN -1 ELSE 0

\* a.v / sqrt(a.s) <= b.v / sqrt(b.s)
PerStdLe(a, b) ==
    LET l == RatMul(RatMul(a.v, a.v), b.s)
        r == RatMul(RatMul(b.v, b.v), a.s)
    IN  IF Sign(a.v) < 0 /\ Sign(b.v) >= 0 THEN TRUE
        ELSE IF Sign(a.v) >= 0 /\ Sign(b.v) < 0 THEN FALSE
        ELSE IF Sign(a.v) >= 0 THEN RatLe(l, r)
        ELSE RatLe(r, l)

\* a <= b on floats: false when either is nan.  The two values come from the
\* same scorer class, so they are of the same kind apart from nan and inf.
FLe(a, b) ==
    IF a.k = "nan" \/ b.k = "nan" THEN FALSE
    ELSE IF b.k = "inf" THEN TRUE
    ELSE IF a.k = "inf" THEN FALSE
    ELSE IF a.k = "neglog" THEN RatLe(b.v, a.v)
    ELSE IF a.k = "per_std" THEN PerStdLe(a, b)
    ELSE RatLe(a.v, b.v)

FGe(a, b) == FLe(b, a)
FLt(a, b) == FLe(a, b) /\ ~FLe(b, a)

\* numpy's x / y for a dividend x >= 0 and a zero divisor: nan for 0 / 0,
\* inf otherwise (a warning, no exception)
DivByZero(x) == IF x.n = 0 THEN NaN ELSE Inf

-----------------------------------------------------------------------------
(* Arrays *)

RECURSIVE SumSeq(_)
SumSeq(q) == IF q = <<>> THEN 0 ELSE Head(q) + SumSeq(Tail(q))

Count(q, P(_)) == Cardinality({i \in DOMAIN q : P(q[i])})

\* np.mean
Mean(X) == Rat(SumSeq(X), Len(X))

\* np.var (np.std squared): the mean of the squared deviations from the mean
Variance(X) ==
    LET mu == Mean(X)
        sq(i) == RatMul(RatSub(RatInt(X[i]), mu), RatSub(RatInt(X[i]), mu))
        RECURSIVE Total(_)
        Total(i) == IF i = 0 THEN Zero ELSE RatAdd(Total(i - 1), sq(i))
    IN  RatDiv(Total(Len(X)), RatInt(Len(X)))

\* the k-th smallest element of an array of rationals
KthSmallest(Q, k) ==
    LET v == CHOOSE i \in DOMAIN Q :
                /\ Cardinality({j \in DOMAIN Q : RatLt(Q[j], Q[i])}) < k
                /\ Cardinality({j \in DOMAIN Q : RatLe(Q[j], Q[i])}) >= k
    IN  Q[v]

\* np.median of an array of rationals: the middle element of the sorted
\* array, or the mean of the two middle elements
MedianRat(Q) ==
    LET n == Len(Q)
    IN  IF n % 2 = 1 THEN KthSmallest(Q, (n + 1) \div 2)
        ELSE RatDiv(RatAdd(KthSmallest(Q, n \div 2), KthSmallest(Q, n \div 2 + 1)),
                    RatInt(2))

Median(X) == MedianRat([i \in DOMAIN X |-> RatInt(X[i])])

\* statsmodels.robust.mad(X) / c: the median of the absolute deviations from
\* the median (mad divides it by the constant c)
MadOverC(X) ==
    LET med == Median(X)
    IN  MedianRat([i \in DOMAIN X |-> RatAbs(RatSub(RatInt(X[i]), med))])

-----------------------------------------------------------------------------
(* The scorer classes *)

Kinds == {"MedianCDFQuantileScorer", "RescaledMedianCDFQuantileScorer",
          "MeanDeviationScorer", "MedianDeviationScorer", "InverseDensityScorer"}

\* a field that is None, a field that holds v
None == {}
Some(v) == {v}
Get(field) == CHOOSE v \in field : TRUE

\* the fields of a scorer object after __init__.  distribution_samples is the
\* field of a MedianCDFQuantileScorer (for the rescaled scorer, of the
\* MedianCDFQuantileScorer it owns); mean/std, median/mad and fitted/density
\* are the fields of the deviation and density scorers
Unfitted ==
    [distribution_samples |-> None, mean |-> None, std |-> None,
     median |-> None, mad |-> None, fitted |-> FALSE, density |-> None]

\* the fields of an ITAnomalyScorer after __init__ (lines 112-115)
ITUnfitted == [distribution_samples |-> None, scores_of_distribution_samples |-> None]

\* EPS of dowhy.gcm.constant: np.finfo(np.float64).eps = 2^-52, a value
\* below every positive 1 - score an array can give.  TLC's integers are 32
\* bits wide, so the model takes 2^-20, which has the same property.
EPS == Rat(1, 2 ^ 20)

\* lines 42-46, 81-82, 145-147, 170-172, 199-201: fit of each class
FitFields(cls, X) ==
    IF cls \in {"MedianCDFQuantileScorer", "RescaledMedianCDFQuantileScorer"}
    THEN [Unfitted EXCEPT !.distribution_samples = Some(X)]
    ELSE IF cls = "MeanDeviationScorer"
    THEN [Unfitted EXCEPT !.mean = Some(Mean(X)), !.std = Some(Variance(X))]
    ELSE IF cls = "MedianDeviationScorer"
    THEN [Unfitted EXCEPT !.median = Some(Median(X)), !.mad = Some(MadOverC(X))]
    ELSE [Unfitted EXCEPT !.fitted = TRUE, !.density = Some(X)]

\* lines 49, 150, 175, 204: the guard at the head of score
NotFitted(cls, fields) ==
    IF cls \in {"MedianCDFQuantileScorer", "RescaledMedianCDFQuantileScorer"}
    THEN fields.distribution_samples = None
    ELSE IF cls = "MeanDeviationScorer"
    THEN fields.mean = None \/ fields.std = None
    ELSE IF cls = "MedianDeviationScorer"
    THEN fields.median = None \/ fields.mad = None
    ELSE ~fields.fitted

\* line 54: np.isclose(x, samples, rtol=0, atol=0): exact equality on the
\* finite values of the model
EqualSamples(x, samples) == Cardinality({i \in DOMAIN samples : samples[i] = x})

\* line 55
GreaterSamples(x, samples) ==
    RatAdd(RatInt(Cardinality({i \in DOMAIN samples : x > samples[i]})),
           Rat(EqualSamples(x, samples), 2))

\* line 56
SmallerSamples(x, samples) ==
    RatAdd(RatInt(Cardinality({i \in DOMAIN samples : x < samples[i]})),
           Rat(EqualSamples(x, samples), 2))

RatMin(a, b) == IF RatLe(a, b) THEN a ELSE b

MedianCDFOneSided(x, samples) ==
    RatSub(One, RatDiv(RatMin(GreaterSamples(x, samples), SmallerSamples(x, samples)),
                       RatInt(Len(samples))))

\* lines 58-60
MedianCDFQuantile(x, samples) ==
    RatSub(One,
           RatDiv(RatMul(RatInt(2),
                         RatMin(GreaterSamples(x, samples), SmallerSamples(x, samples))),
                  RatInt(Len(samples))))

RescaledUnclamped(score) == RatSub(One, score)

\* lines 85-86: scores = 1 - score; scores[scores == 0] = EPS
RescaledArgument(score) ==
    IF RatSub(One, score) = Zero THEN EPS ELSE RatSub(One, score)

SignedDeviation(x, centre) == RatSub(RatInt(x), centre)

\* abs(X - self._mean), abs(X - self._median)
Deviation(x, centre) == RatAbs(RatSub(RatInt(x), centre))

\* line 153
MeanDeviation(x, mean, var) ==
    IF var = Zero THEN DivByZero(Deviation(x, mean))
    ELSE PerStd(Deviation(x, mean), var)

\* line 178
MedianDeviation(x, median, mad_over_c) ==
    IF mad_over_c = Zero THEN DivByZero(Deviation(x, median))
    ELSE TimesC(RatDiv(Deviation(x, median), mad_over_c))

\* the density estimator's density(x): the share of the fitted samples equal
\* to x
Density(x, samples) == Rat(EqualSamples(x, samples), Len(samples))

\* line 207
InverseDensity(x, samples) ==
    IF Density(x, samples) = Zero THEN Inf
    ELSE Num(RatDiv(One, Density(x, samples)))

\* score of each class on one query value, on fitted fields
ScoreOne(cls, fields, x) ==
    IF cls = "MedianCDFQuantileScorer"
    THEN Num(MedianCDFQuantile(x, Get(fields.distribution_samples)))
    ELSE IF cls = "RescaledMedianCDFQuantileScorer"
    THEN NegLog(RescaledArgument(MedianCDFQuantile(x, Get(fields.distribution_samples))))
    ELSE IF cls = "MeanDeviationScorer"
    THEN MeanDeviation(x, Get(fields.mean), Get(fields.std))
    ELSE IF cls = "MedianDeviationScorer"
    THEN MedianDeviation(x, Get(fields.median), Get(fields.mad))
    ELSE InverseDensity(x, Get(fields.density))

NoScores == <<>>

Raise(error) == [kind |-> "raise", error |-> error, scores |-> NoScores, inner |-> NoScores]
Return(scores, inner) == [kind |-> "return", error |-> "", scores |-> scores, inner |-> inner]

NotFittedError == "ValueError: Scorer has not been fitted!"

\* score of each class on an array: the scores, or the not-fitted error
Score(cls, fields, X) ==
    IF NotFitted(cls, fields) THEN Raise(NotFittedError)
    ELSE Return([i \in DOMAIN X |-> ScoreOne(cls, fields, X[i])], NoScores)

CountLe(scores, s) == Cardinality({i \in DOMAIN scores : FLe(scores[i], s)})

\* line 126: np.sum(self._scores_of_distribution_samples >= s)
CountGe(scores, s) == Cardinality({i \in DOMAIN scores : FGe(scores[i], s)})

\* lines 125-128
ITTransform(scores, s) ==
    NegLog(Rat(2 * CountGe(scores, s) + 1, 2 * Len(scores) + 1))

\* ITAnomalyScorer.score, lines 122-128.  The score of the wrapped scorer
\* comes first and its error propagates; comparing the None of an unfitted
\* wrapper with an array is a TypeError
ITScoreOf(cls, fields, wrapper, X) ==
    LET s == Score(cls, fields, X)
    IN  IF s.kind = "raise" THEN s
        ELSE IF wrapper.scores_of_distribution_samples = None
        THEN Raise("TypeError: '>=' not supported between NoneType and float")
        ELSE Return([i \in DOMAIN X |->
                        ITTransform(Get(wrapper.scores_of_distribution_samples),
                                    s.scores[i])],
                    s.scores)

-----------------------------------------------------------------------------
(* The scorers as objects: one scorer of any class, and an ITAnomalyScorer  *)
(* constructed around it                                                    *)

\* the arrays handed to fit: every non-empty array of at most MaxLen values
\* of 0..MaxVal, and the array of the class's docstring, [-3, ..., 3], in
\* half units
DocSamples == <<-6, -4, -2, 0, 2, 4, 6>>
References == (SeqsUpTo(0..MaxVal, MaxLen) \ {<<>>}) \cup {DocSamples}

\* the arrays handed to score: the grid -1..MaxVal+1, the docstring's query
\* 2.5 in half units, and the array the caller fitted last
QueryGrid == [i \in 1..(MaxVal + 3) |-> i - 2]
DocQuery == <<5>>
Queries == {QueryGrid, DocQuery} \cup (IF ref = <<>> THEN {} ELSE {ref})

NoReturn == [op |-> "none", callee |-> "", query |-> <<>>, result |-> Raise("")]

\* the arrays a fit may be handed: a caller holds one reference array and
\* fits with it
FitArrays == IF ref = <<>> THEN References ELSE {ref}

\* scorer.fit(X), called on the scorer itself
ScorerFit ==
    /\ \E X \in FitArrays :
          /\ scorer' = FitFields(kind, X)
          /\ ref' = X
    /\ returned' = NoReturn
    /\ UNCHANGED <<kind, it, wrappers, est_vars>>

\* ITAnomalyScorer.fit(X), lines 117-120
ITFit ==
    /\ \E X \in FitArrays :
          /\ scorer' = FitFields(kind, X)
          /\ it' = [distribution_samples |-> Some(X),
                    scores_of_distribution_samples |->
                        Some(Score(kind, FitFields(kind, X), X).scores)]
          /\ ref' = X
    /\ returned' = NoReturn
    /\ UNCHANGED <<kind, wrappers, est_vars>>

\* scorer.score(X)
ScorerScore ==
    /\ \E X \in Queries :
          returned' = [op |-> "score", callee |-> "scorer", query |-> X,
                       result |-> Score(kind, scorer, X)]
    /\ UNCHANGED <<kind, scorer, it, ref, wrappers, est_vars>>

\* ITAnomalyScorer.score(X), lines 122-128
ITScore ==
    /\ \E X \in Queries :
          returned' = [op |-> "score", callee |-> "it", query |-> X,
                       result |-> ITScoreOf(kind, scorer, it, X)]
    /\ UNCHANGED <<kind, scorer, it, ref, wrappers, est_vars>>

-----------------------------------------------------------------------------
(* One scorer object shared by several ITAnomalyScorer objects.  __init__   *)
(* (line 113) keeps the scorer it is handed, not a copy, so the caller and  *)
(* every ITAnomalyScorer built around that scorer reach the same object;    *)
(* here each fit is handed an array of its own                              *)

\* the ITAnomalyScorer objects constructed around the scorer
Wrappers == {"first", "second"}

\* the arrays handed to the fits: two increasing values of 0..MaxVal
SharedReferences == {X \in (0..MaxVal) \X (0..MaxVal) : X[1] < X[2]}

\* lines 118-120: the fields of an ITAnomalyScorer after fit(X)
ITFitFields(cls, X) ==
    [distribution_samples |-> Some(X),
     scores_of_distribution_samples |-> Some(Score(cls, FitFields(cls, X), X).scores)]

\* scorer.fit(X), called by the holder of the scorer
SharedFit ==
    /\ \E X \in SharedReferences : scorer' = FitFields(kind, X)
    /\ returned' = NoReturn
    /\ UNCHANGED <<kind, it, ref, wrappers, est_vars>>

\* ITAnomalyScorer.fit(X) on the wrapper w, lines 117-120: line 119 fits the
\* shared scorer
WrapperFit(w) ==
    /\ \E X \in SharedReferences :
          /\ scorer' = FitFields(kind, X)
          /\ wrappers' = [wrappers EXCEPT ![w] = ITFitFields(kind, X)]
    /\ returned' = NoReturn
    /\ UNCHANGED <<kind, it, ref, est_vars>>

\* ITAnomalyScorer.score(X) on the wrapper w, lines 122-128: line 124 reads
\* the shared scorer as it is now
WrapperScore(w) ==
    /\ returned' = [op |-> "score", callee |-> w, query |-> QueryGrid,
                    result |-> ITScoreOf(kind, scorer, wrappers[w], QueryGrid)]
    /\ UNCHANGED <<kind, scorer, it, ref, wrappers, est_vars>>

-----------------------------------------------------------------------------
(* Specifications *)

\* the estimator after construction; the scorers are not used
EstInit ==
    /\ symbolic_estimator = "unset"
    /\ self_fields = FreshFields
    /\ last_call = NoCall
    /\ threads = [t \in Callers |-> IdleThread]
    /\ kind = "MedianCDFQuantileScorer"
    /\ scorer = Unfitted
    /\ it = ITUnfitted
    /\ ref = <<>>
    /\ returned = NoReturn
    /\ wrappers = [w \in Wrappers |-> ITUnfitted]

\* a scorer of some class and ITAnomalyScorer(scorer) after construction; the
\* estimator is not used
ScInit ==
    /\ kind \in Kinds
    /\ scorer = Unfitted
    /\ it = ITUnfitted
    /\ ref = <<>>
    /\ returned = NoReturn
    /\ wrappers = [w \in Wrappers |-> ITUnfitted]
    /\ symbolic_estimator = "unset"
    /\ self_fields = FreshFields
    /\ last_call = NoCall
    /\ threads = [t \in Callers |-> IdleThread]

\* the estimator, one call
Next == Fit \/ EstimateEffect

Spec == EstInit /\ [][Next]_vars

\* the estimator, concurrent calls
SpecConcurrent == EstInit /\ [][ConcNext]_vars

\* the anomaly scorers
ScNext == ScorerFit \/ ITFit \/ ScorerScore \/ ITScore

SpecScorers == ScInit /\ [][ScNext]_vars

\* the anomaly scorers, one scorer shared by the wrappers
SharedNext ==
    \/ SharedFit
    \/ \E w \in Wrappers : WrapperFit(w) \/ WrapperScore(w)

SpecShared == ScInit /\ [][SharedNext]_vars

-----------------------------------------------------------------------------
(* Properties of estimate_effect, stated on the table and on what the call  *)
(* handed back, without the operators above                                 *)

\* the rows of the table with treatment value v, in table order
RECURSIVE RowsWith(_, _)
RowsWith(table, v) ==
    IF table = <<>> THEN <<>>
    ELSE IF Head(table).t = v THEN <<Head(table)>> \o RowsWith(Tail(table), v)
    ELSE RowsWith(Tail(table), v)

RECURSIVE SumY(_)
SumY(rows) == IF rows = <<>> THEN 0 ELSE Head(rows).y + SumY(Tail(rows))

\* the rows picked[1], picked[2], ... of rows
PickedRows(rows, picked) == [i \in 1..Len(picked) |-> rows[picked[i]]]

\* the rational q equals the integer total divided by count
IsMean(q, total, count) == q.d > 0 /\ q.n * count = q.d * total

CallDone == last_call.done
NTreated == Len(RowsWith(last_call.data, 1))
NControl == Len(RowsWith(last_call.data, 0))
BothPartitions == CallDone /\ NTreated >= 1 /\ NControl >= 1

\* C1: on a table with n >= 1 treated and m >= 1 control rows, estimate_effect
\* returns ATT for "att", ATC for "atc", and for "ate" the value e with
\* e * (n + m) = ATT * n + ATC * m, ATT and ATC being the call's own averages.
C1_TargetUnitsCombine ==
    (BothPartitions /\ last_call.target_units \in {"att", "atc", "ate"}) =>
        LET r == last_call.result
            n == NTreated
            m == NControl
        IN  /\ r.kind = "estimate"
            /\ r.n = n /\ r.m = m
            /\ last_call.target_units = "att" => r.est = r.att
            /\ last_call.target_units = "atc" => r.est = r.atc
            /\ last_call.target_units = "ate" =>
                 /\ r.est.d > 0
                 /\ r.est.n * (n + m) * r.att.d * r.atc.d
                      = r.est.d * (r.att.n * n * r.atc.d + r.atc.n * m * r.att.d)

\* an "ate" call on partitions of different sizes whose ATT and ATC differ
C1_Witness ==
    /\ BothPartitions
    /\ last_call.target_units = "ate"
    /\ last_call.result.kind = "estimate"
    /\ NTreated # NControl
    /\ last_call.result.att # last_call.result.atc
    /\ last_call.result.est # last_call.result.att
    /\ last_call.result.est # last_call.result.atc

\* C2: with both partitions non-empty, every treated row is matched to a
\* control row no other control row is strictly closer to in propensity
\* score, ATT is the mean over the treated rows of treated outcome minus
\* matched control outcome, and symmetrically for the control rows and ATC;
\* every row gets a match, however far, and a row may be matched many times.
C2_NearestNeighbourMatching ==
    BothPartitions =>
        LET r == last_call.result
            treated == RowsWith(last_call.data, 1)
            control == RowsWith(last_call.data, 0)
            n == NTreated
            m == NControl
        IN  /\ DOMAIN r.ind_att = 1..n
            /\ DOMAIN r.ind_atc = 1..m
            /\ \A i \in 1..n :
                 /\ r.ind_att[i] \in 1..m
                 /\ ~ \E k \in 1..m :
                        Abs(control[k].ps - treated[i].ps)
                          < Abs(control[r.ind_att[i]].ps - treated[i].ps)
            /\ \A i \in 1..m :
                 /\ r.ind_atc[i] \in 1..n
                 /\ ~ \E k \in 1..n :
                        Abs(treated[k].ps - control[i].ps)
                          < Abs(treated[r.ind_atc[i]].ps - control[i].ps)
            /\ IsMean(r.att, SumY(treated) - SumY(PickedRows(control, r.ind_att)), n)
            /\ IsMean(r.atc, SumY(PickedRows(treated, r.ind_atc)) - SumY(control), m)

\* two treated rows matched to the same control row, one of them at the
\* largest distance the score grid allows, while a farther control row was
\* passed over for another treated row
C2_Witness ==
    /\ BothPartitions
    /\ NTreated >= 2
    /\ last_call.result.ind_att[1] = last_call.result.ind_att[2]
    /\ LET treated == RowsWith(last_call.data, 1)
           control == RowsWith(last_call.data, 0)
       IN  \E i \in 1..2 :
              Abs(control[last_call.result.ind_att[i]].ps - treated[i].ps) = MaxPS
    /\ last_call.result.att # Zero

\* C4 as claimed: with an empty treated or control partition estimate_effect
\* does not raise and hands back an estimate (holding NaN or Infinity)
C4_EmptyPartitionReturns ==
    (CallDone /\ (NTreated = 0 \/ NControl = 0)) => last_call.result.kind = "estimate"

\* C4, amended: with an empty treated or control partition estimate_effect
\* raises and hands back no estimate: the nearest-neighbour search rejects
\* the empty array, and where it does not, indexing the empty control
\* partition or the division 0 / 0 of the averaging step raises.
C4_EmptyPartitionRaises ==
    (CallDone /\ (NTreated = 0 \/ NControl = 0)) =>
        /\ last_call.result.kind = "raise"
        /\ last_call.result.error \in {"ValueError", "IndexError", "ZeroDivisionError"}
        /\ last_call.result.line <= 138

\* an empty treated partition reaching the averaging step
C4_Witness ==
    /\ CallDone
    /\ NTreated = 0
    /\ NControl >= 1
    /\ last_call.result.error = "ZeroDivisionError"

\* C5: on non-empty partitions every target_units other than "att", "atc"
\* and "ate" (the default None included) ends in the ValueError "Target units
\* string value not supported" and no estimate.
C5_UnsupportedTargetUnits ==
    (BothPartitions /\ last_call.target_units \notin {"att", "atc", "ate"}) =>
        /\ last_call.result.kind = "raise"
        /\ last_call.result.error = "ValueError: Target units string value not supported"

\* the default target_units=None on non-empty partitions
C5_Witness ==
    /\ BothPartitions
    /\ last_call.target_units = "None"
    /\ last_call.result.kind = "raise"
    /\ last_call.result.line = 161

-----------------------------------------------------------------------------
(* Properties of concurrent estimate_effect calls *)

\* the instance as seen through the back-reference of any returned estimate:
\* there is one instance, and every estimate refers to it
SeenThroughEstimate == self_fields

OwnArguments(t) ==
    [target_units |-> threads[t].target_units,
     treatment_value |-> threads[t].treatment_value,
     control_value |-> threads[t].control_value]

\* what the call of caller t can hand back when it is the only call
AloneResults(t) ==
    {Outcome(threads[t].data, threads[t].target_units, validates, ind_att, ind_atc) :
        validates \in Validations(threads[t].data),
        ind_att \in SearchesATT(threads[t].data),
        ind_atc \in SearchesATC(threads[t].data)}

\* the callers whose call has executed the write of line 111, 112, 113
Wrote111 == {t \in Callers : threads[t].pc # "idle"}
Wrote112 == {t \in Callers : threads[t].pc \in {"L113", "L114", "done"}}
Wrote113 == {t \in Callers : threads[t].pc \in {"L114", "done"}}

\* C10 as claimed: estimate_effect leaves the instance alone, so the instance
\* seen through a returned estimate's back-reference is what that estimate's
\* own call would leave behind when run alone, whatever other calls do.
C10_InstanceUntouchedByOtherCalls ==
    \A t \in Callers :
        threads[t].pc = "done" => SeenThroughEstimate = OwnArguments(t)

\* C10, amended: estimate_effect writes its three arguments to the instance
\* (target_units, treatment_value, control_value; lines 111-113) and reads
\* none of them back.  So repeated or interleaved calls each hand back what
\* they would hand back alone, but the instance seen through every returned
\* estimate holds, field by field, an argument of one of the calls that have
\* written that field (its initial value while none has).
C10_CallsShareOnlyTheArgumentFields ==
    /\ \A t \in Callers : threads[t].pc = "done" => threads[t].result \in AloneResults(t)
    /\ IF Wrote111 = {} THEN self_fields.target_units = FreshFields.target_units
       ELSE \E t \in Wrote111 : self_fields.target_units = threads[t].target_units
    /\ IF Wrote112 = {} THEN self_fields.treatment_value = FreshFields.treatment_value
       ELSE \E t \in Wrote112 : self_fields.treatment_value = threads[t].treatment_value
    /\ IF Wrote113 = {} THEN self_fields.control_value = FreshFields.control_value
       ELSE \E t \in Wrote113 : self_fields.control_value = threads[t].control_value

\* two finished calls and an instance holding the target_units of the first
\* and the treatment_value of the second, the second having returned an
\* estimate for its own target_units
C10_Witness ==
    /\ threads[1].pc = "done"
    /\ threads[2].pc = "done"
    /\ self_fields.target_units = threads[1].target_units
    /\ self_fields.target_units # threads[2].target_units
    /\ self_fields.treatment_value = threads[2].treatment_value
    /\ self_fields.treatment_value # threads[1].treatment_value
    /\ threads[2].result.kind = "estimate"
    /\ threads[1].result.kind = "raise"

-----------------------------------------------------------------------------
(* Properties of the anomaly scorers, stated on the caller's arrays and on  *)
(* what the call handed back                                                *)

ScoredBy(callee) == returned.op = "score" /\ returned.callee = callee
Handed == returned.result

\* the number of elements of R for which P holds
HowMany(R, P(_)) == Cardinality({i \in DOMAIN R : P(R[i])})

MeanOf(R) == Rat(SumSeq(R), Len(R))

\* the median without sorting: the element (or the mean of the two elements)
\* with at most half of the array strictly on either side
LowerMiddle(R) ==
    LET below(x) == Cardinality({j \in DOMAIN R : R[j] < x})
        above(x) == Cardinality({j \in DOMAIN R : R[j] > x})
        i == CHOOSE i \in DOMAIN R :
                2 * below(R[i]) < Len(R) /\ 2 * above(R[i]) <= Len(R)
    IN  R[i]

UpperMiddle(R) ==
    LET below(x) == Cardinality({j \in DOMAIN R : R[j] < x})
        above(x) == Cardinality({j \in DOMAIN R : R[j] > x})
        i == CHOOSE i \in DOMAIN R :
                2 * below(R[i]) <= Len(R) /\ 2 * above(R[i]) < Len(R)
    IN  R[i]

MedianOf(R) == Rat(LowerMiddle(R) + UpperMiddle(R), 2)

\* |x - centre|
DistanceFrom(centre, x) == RatAbs(RatSub(RatInt(x), centre))

\* C3 as claimed: score on a scorer of any class, the ITAnomalyScorer
\* included, on which fit has not been called ends in the not-fitted error,
\* also when the scorer the ITAnomalyScorer wraps has been fitted on its own.
C3_ScoreBeforeFitIsNotFitted ==
    /\ (ScoredBy("scorer") /\ scorer = Unfitted) =>
          Handed.kind = "raise" /\ Handed.error = NotFittedError
    /\ (ScoredBy("it") /\ it = ITUnfitted) =>
          Handed.kind = "raise" /\ Handed.error = NotFittedError

\* C6: a MedianCDFQuantileScorer fitted on a non-empty R scores a query x
\* with 1 - 2*min(greater, smaller)/|R|, where equal = #{r = x}, greater =
\* #{r > x} + equal/2 and smaller = #{r < x} + equal/2; the score lies in
\* [0, 1], is 0 for the middle element of an odd-sized R of distinct values,
\* is 1 for an x strictly beyond every sample, and is 1 - 2/7 for
\* R = [-3, ..., 3] and x = 2.5.
C6_MedianCDFQuantileScore ==
    (kind = "MedianCDFQuantileScorer" /\ ScoredBy("scorer") /\ ref # <<>>) =>
        /\ Handed.kind = "return"
        /\ DOMAIN Handed.scores = DOMAIN returned.query
        /\ \A i \in DOMAIN returned.query :
             LET x == returned.query[i]
                 n == Len(ref)
                 isx(r) == r = x
                 gt(r) == r > x
                 lt(r) == r < x
                 equal == HowMany(ref, isx)
                 greater2 == 2 * HowMany(ref, gt) + equal
                 smaller2 == 2 * HowMany(ref, lt) + equal
                 min2 == IF greater2 <= smaller2 THEN greater2 ELSE smaller2
                 sc == Handed.scores[i]
             IN  /\ sc.k = "num"
                 /\ sc.v.d > 0
                 \* sc = 1 - min2 / n, min2 being 2 * min(greater, smaller)
                 /\ sc.v.n * n = sc.v.d * (n - min2)
                 /\ 0 <= sc.v.n /\ sc.v.n <= sc.v.d
                 /\ (/\ n % 2 = 1
                     /\ \A j, k \in DOMAIN ref : j # k => ref[j] # ref[k]
                     /\ x \in {ref[j] : j \in DOMAIN ref}
                     /\ HowMany(ref, lt) = HowMany(ref, gt)
                     /\ equal = 1) => sc.v = Zero
                 /\ (HowMany(ref, gt) = n \/ HowMany(ref, lt) = n) => sc.v = One
                 /\ (ref = DocSamples /\ x = 5) => sc.v = [n |-> 5, d |-> 7]

\* the docstring's example
C6_Witness ==
    /\ kind = "MedianCDFQuantileScorer"
    /\ ScoredBy("scorer")
    /\ ref = DocSamples
    /\ returned.query = DocQuery
    /\ Handed.kind = "return"
    /\ Handed.scores[1] = Num([n |-> 5, d |-> 7])

\* C8: a fitted ITAnomalyScorer with n >= 1 reference scores takes the
\* logarithm of (#{reference scores >= s} + 0.5) / (n + 0.5) for a query of
\* inner score s, and for inner scores s1 <= s2 the score of the first is at
\* most the score of the second.
C8_ITScoreMonotone ==
    (ScoredBy("it") /\ it # ITUnfitted) =>
        /\ Handed.kind = "return"
        /\ DOMAIN Handed.scores = DOMAIN returned.query
        /\ DOMAIN Handed.inner = DOMAIN returned.query
        /\ LET refs == Get(it.scores_of_distribution_samples)
               n == Len(refs)
           IN  /\ n >= 1
               /\ \A i \in DOMAIN returned.query :
                    LET atleast(r) == FGe(r, Handed.inner[i])
                        sc == Handed.scores[i]
                    IN  /\ sc.k = "neglog"
                        /\ sc.v.d > 0
                        /\ sc.v.n * (2 * n + 1) = sc.v.d * (2 * HowMany(refs, atleast) + 1)
               /\ \A i, j \in DOMAIN returned.query :
                    FLe(Handed.inner[i], Handed.inner[j]) =>
                        \* -log(a) <= -log(b) exactly when b <= a
                        RatLe(Handed.scores[j].v, Handed.scores[i].v)

\* two queries of a fitted wrapper whose inner scores and whose scores both
\* differ strictly
C8_Witness ==
    /\ ScoredBy("it")
    /\ it # ITUnfitted
    /\ Handed.kind = "return"
    /\ \E i, j \in DOMAIN returned.query :
          /\ FLt(Handed.inner[i], Handed.inner[j])
          /\ RatLt(Handed.scores[j].v, Handed.scores[i].v)

\* C9: a fitted RescaledMedianCDFQuantileScorer takes the logarithm of
\* 1 - s, s being the MedianCDFQuantileScorer score of the query, unless
\* s = 1, when it takes the logarithm of EPS; the argument is strictly
\* positive, and s1 <= s2 implies that the rescaled score of the first is at
\* most that of the second, the clamped case included.
C9_RescaledLogArgument ==
    (kind = "RescaledMedianCDFQuantileScorer" /\ ScoredBy("scorer") /\ ref # <<>>) =>
        /\ Handed.kind = "return"
        /\ DOMAIN Handed.scores = DOMAIN returned.query
        /\ \A i \in DOMAIN returned.query :
             LET s == MedianCDFQuantile(returned.query[i], ref)
                 a == Handed.scores[i]
             IN  /\ a.k = "neglog"
                 /\ s # One => a.v = RatSub(One, s)
                 /\ s = One => a.v = EPS
                 /\ a.v.n > 0 /\ a.v.d > 0
        /\ \A i, j \in DOMAIN returned.query :
             RatLe(MedianCDFQuantile(returned.query[i], ref),
                   MedianCDFQuantile(returned.query[j], ref)) =>
                 \* -log(a) <= -log(b) exactly when b <= a
                 RatLe(Handed.scores[j].v, Handed.scores[i].v)

\* a clamped and an unclamped query in one call
C9_Witness ==
    /\ kind = "RescaledMedianCDFQuantileScorer"
    /\ ScoredBy("scorer")
    /\ Handed.kind = "return"
    /\ \E i, j \in DOMAIN returned.query :
          /\ Handed.scores[i].v = EPS
          /\ MedianCDFQuantile(returned.query[i], ref) = One
          /\ Handed.scores[j].v # EPS
          /\ Handed.scores[j].v # One

\* the centre a class measures distance from
CentreOf(R) == IF kind = "MeanDeviationScorer" THEN MeanOf(R) ELSE MedianOf(R)

RoundTrip ==
    /\ kind \in {"MedianCDFQuantileScorer", "MeanDeviationScorer", "MedianDeviationScorer"}
    /\ ScoredBy("scorer")
    /\ ref # <<>>
    /\ returned.query = ref

\* C7 as claimed: fitting on R and scoring the elements of R orders them as
\* their distance from the centre does: score(a) < score(b) exactly when
\* |a - centre| < |b - centre|.
C7_RoundTripOrdering ==
    RoundTrip =>
        /\ Handed.kind = "return"
        /\ \A i, j \in DOMAIN ref :
             FLt(Handed.scores[i], Handed.scores[j])
               <=> RatLt(DistanceFrom(CentreOf(ref), ref[i]),
                         DistanceFrom(CentreOf(ref), ref[j]))

\* twice the absolute deviations of the elements of R from its median
TwiceAbsDeviations(R) ==
    [i \in DOMAIN R |-> Abs(2 * R[i] - (LowerMiddle(R) + UpperMiddle(R)))]

\* the median absolute deviation of R is zero
ZeroMAD(R) == MedianOf(TwiceAbsDeviations(R)) = Zero

\* no value occurs twice in R
Distinct(R) == \A i, j \in DOMAIN R : i # j => R[i] # R[j]

\* a and b lie on the same side of the centre
SameSide(centre, a, b) ==
    \/ RatLe(centre, RatInt(a)) /\ RatLe(centre, RatInt(b))
    \/ RatLe(RatInt(a), centre) /\ RatLe(RatInt(b), centre)

\* score(a) < score(b) exactly when |a - centre| < |b - centre|, for the
\* elements at positions i and j of R
OrderedAsDistance(i, j) ==
    FLt(Handed.scores[i], Handed.scores[j])
      <=> RatLt(DistanceFrom(CentreOf(ref), ref[i]), DistanceFrom(CentreOf(ref), ref[j]))

\* C7, amended: fitting on R and scoring the elements of R orders them as
\* their distance from the centre does (score(a) < score(b) exactly when
\* |a - centre| < |b - centre|)
\*   - for MeanDeviationScorer, for all a, b in R;
\*   - for MedianDeviationScorer, for all a, b in R when the median absolute
\*     deviation of R is not zero; when it is zero every score is nan or inf
\*     and no element scores below another;
\*   - for MedianCDFQuantileScorer, only when the values of R are distinct
\*     and a and b lie on the same side of the median: its score is a
\*     two-sided rank, not a distance.
C7_RoundTripOrderingWhereItHolds ==
    RoundTrip =>
        /\ Handed.kind = "return"
        /\ DOMAIN Handed.scores = DOMAIN ref
        /\ kind = "MeanDeviationScorer" =>
             \A i, j \in DOMAIN ref : OrderedAsDistance(i, j)
        /\ (kind = "MedianDeviationScorer" /\ ~ZeroMAD(ref)) =>
             \A i, j \in DOMAIN ref : OrderedAsDistance(i, j)
        /\ (kind = "MedianDeviationScorer" /\ ZeroMAD(ref)) =>
             \A i, j \in DOMAIN ref :
                /\ Handed.scores[i].k \in {"nan", "inf"}
                /\ ~FLt(Handed.scores[i], Handed.scores[j])
        /\ (kind = "MedianCDFQuantileScorer" /\ Distinct(ref)) =>
             \A i, j \in DOMAIN ref :
                SameSide(MedianOf(ref), ref[i], ref[j]) => OrderedAsDistance(i, j)

\* a round trip of a MedianCDFQuantileScorer on distinct values that scores
\* two elements on opposite sides of the median alike although their
\* distances differ, and two on the same side in the order of their distances
C7_Witness ==
    /\ RoundTrip
    /\ kind = "MedianCDFQuantileScorer"
    /\ Distinct(ref)
    /\ \E i, j \in DOMAIN ref :
          /\ ~SameSide(MedianOf(ref), ref[i], ref[j])
          /\ Handed.scores[i] = Handed.scores[j]
          /\ RatLt(DistanceFrom(MedianOf(ref), ref[i]), DistanceFrom(MedianOf(ref), ref[j]))
    /\ \E i, j \in DOMAIN ref :
          /\ i # j
          /\ SameSide(MedianOf(ref), ref[i], ref[j])
          /\ FLt(Handed.scores[i], Handed.scores[j])

-----------------------------------------------------------------------------
(* Properties of ITAnomalyScorer objects around a shared scorer *)

\* equal as floats (nan taken equal to nan, as for arrays with equal_nan)
SameFloat(a, b) == (a.k = "nan" /\ b.k = "nan") \/ (FLe(a, b) /\ FLe(b, a))

SameScores(p, q) ==
    /\ Len(p) = Len(q)
    /\ \A i \in DOMAIN p : SameFloat(p[i], q[i])

FittedWrapper(w) == wrappers[w].scores_of_distribution_samples # None

\* what the wrapper w returned for the query X immediately after its own fit
ScoreAfterOwnFit(w, X) ==
    LET R == Get(wrappers[w].distribution_samples)
    IN  ITScoreOf(kind, FitFields(kind, R), ITFitFields(kind, R), X).scores

\* C11: after any sequence of fit and score calls, every fitted
\* ITAnomalyScorer's stored reference scores are the scores its inner scorer
\* now assigns to its stored reference samples, and the score it returns for
\* a query is the one it returned for that query right after its own fit.
C11_StoredReferenceScoresCurrent ==
    \A w \in Wrappers :
        FittedWrapper(w) =>
            /\ SameScores(Get(wrappers[w].scores_of_distribution_samples),
                          Score(kind, scorer, Get(wrappers[w].distribution_samples)).scores)
            /\ (returned.op = "score" /\ returned.callee = w
                    /\ returned.result.kind = "return")
                 => SameScores(returned.result.scores,
                               ScoreAfterOwnFit(w, returned.query))

====
